---------------------------- MODULE Spec2Model ----------------------------
(***************************************************************************)
(* A model of MotiveClient (src/Motiveclient.py): the receive loop of      *)
(* threadFunction and the decoding of one NatNet datagram by parseMessage, *)
(* unpackMotiveData, unpackMarkerSet and unpackRigidBodyData.              *)
(*                                                                         *)
(* A datagram is a sequence of bytes.  Python's slices clamp to the buffer *)
(* (Slice), int.from_bytes accepts any length including none               *)
(* (FromBytesLE), and struct.Struct.unpack raises struct.error unless it   *)
(* is given exactly the struct's size (StructFits).  Nothing in the        *)
(* program catches an exception, so a raise inside the decoder ends        *)
(* threadFunction: pc = "dead".                                            *)
(***************************************************************************)
EXTENDS Integers, Sequences, FiniteSets

VARIABLES
  pc,       \* where the data thread is: "recv", "parseMessage",
            \* "unpackMotiveData", "markerSets", "rigidBodies", "returned", "dead"
  input,    \* what the server sent (the shape of the datagram on the wire)
  data,     \* the bytes recvfrom returned
  offset,   \* unpackMotiveData's offset into the payload data[4:]
  i,        \* index of the running for loop
  count,    \* range of the running for loop
  log,      \* the logging.info calls made for this packet, in order
  reads,    \* the fields read and sub-decoders called by unpackMotiveData
  outcome   \* "none", "done", "unrecognized", "error"

vars == <<pc, input, data, offset, i, count, log, reads, outcome>>

-----------------------------------------------------------------------------
(* Bounds of the model. *)

MaxMarkerSets == 2
MaxRigidBodies == 2

UnlabeledCounts == {0, 1}
SkeletonCounts == {0, 1}
LabeledCounts == {0, 1}
OtherTags == {5}

-----------------------------------------------------------------------------
(* Python primitives. *)

Min(a, b) == IF a < b THEN a ELSE b

\* s[a:b] for 0 <= a, 0 <= b: clamped to the buffer, empty when a >= b.
Slice(s, a, b) == SubSeq(s, Min(a, Len(s)) + 1, Min(b, Len(s)))

\* s[a:]
SliceFrom(s, a) == SubSeq(s, Min(a, Len(s)) + 1, Len(s))

RECURSIVE FromBytesLE(_)
\* int.from_bytes(b, byteorder='little'): unsigned, 0 for no bytes.
FromBytesLE(b) == IF b = <<>> THEN 0 ELSE b[1] + 256 * FromBytesLE(Tail(b))

\* struct.Struct(fmt).unpack(b) raises struct.error unless len(b) == size.
StructFits(b, size) == Len(b) = size

\* The k little-endian 32-bit words of b (the bit patterns of '<f' values).
Words(b, k) == [w \in 1..k |-> FromBytesLE(SubSeq(b, 4 * w - 3, 4 * w))]

\* bytes.partition(b'\0')[0]: the bytes before the first NUL, all of them
\* when there is none.
HasNul(b) == \E k \in 1..Len(b) : b[k] = 0
FirstNul(b) == CHOOSE k \in 1..Len(b) : b[k] = 0 /\ \A j \in 1..(k - 1) : b[j] # 0
ModelName(b) == IF HasNul(b) THEN SubSeq(b, 1, FirstNul(b) - 1) ELSE b

Entry(msg, val) == [msg |-> msg, val |-> val]
Read(what, at, n) == [what |-> what, at |-> at, n |-> n]

-----------------------------------------------------------------------------
(* Program constants. *)

\* NAT_FRAMEOFDATA = 7
NAT_FRAMEOFDATA == 7

\* offset = 4 in parseMessage: the message id and the payload size, 2 bytes each
HeaderSize == 4

\* the size of struct.Struct('<d')
DoubleSize == 8

\* the bytes of one marker ('<fff'), of one labeled marker
MarkerSize == 12
LabeledMarkerSize == 26

-----------------------------------------------------------------------------
(* The sub-decoders. *)

\* unpackMarkerSet(data): the number of bytes it reports consumed.  It reads
\* the name up to the first NUL (or to the end of the buffer), the marker
\* count, and skips the markers; it raises nothing.
unpackMarkerSet(d) ==
  LET modelName == ModelName(d)
      o1 == Len(modelName) + 1
      markerCount == FromBytesLE(Slice(d, o1, o1 + 4))
  IN  o1 + 4 + MarkerSize * markerCount

\* What a rigid-body decode that runs to its return reports consumed: the id,
\* the position, the orientation, the mean marker error, the tracking status.
RigidBodyConsumed_NoQuality == 4 + 12 + 16

RigidBodyConsumed == 4 + 12 + 16 + 4 + 2

\* unpackRigidBodyData(data): [raised, ret, log].  The id is read with
\* int.from_bytes and logged before anything else; the position and the
\* orientation are unpacked with Vector3 and Quaternion, which raise on a
\* short slice.
unpackRigidBodyData(d) ==
  LET rigidBodyID == FromBytesLE(Slice(d, 0, 4))
      posBytes == Slice(d, 4, 16)
      oriBytes == Slice(d, 16, 32)
      l1 == <<Entry("ID", <<rigidBodyID>>)>>
      l2 == Append(l1, Entry("Position", Words(posBytes, 3)))
      l3 == Append(l2, Entry("Orientation", Words(oriBytes, 4)))
  IN  IF ~StructFits(posBytes, 12)
        THEN [raised |-> TRUE, ret |-> 0, log |-> l1]
      ELSE IF ~StructFits(oriBytes, 16)
        THEN [raised |-> TRUE, ret |-> 0, log |-> l2]
      ELSE [raised |-> FALSE, ret |-> RigidBodyConsumed, log |-> l3]

\* for i in range(count): whether the loop body runs once more
LoopContinues_OffByOne(k, n) == k + 1 < n

LoopContinues(k, n) == k < n

\* if messageID == NAT_FRAMEOFDATA
IsFrameOfData_UpTo(messageID) == messageID <= NAT_FRAMEOFDATA

IsFrameOfData(messageID) == messageID = NAT_FRAMEOFDATA

-----------------------------------------------------------------------------
(* The datagrams the server sends: the wire layout the decoder's comments  *)
(* describe, built from a shape (how many records of each kind, whether    *)
(* the rigid-body records carry the mean marker error and tracking status, *)
(* how many bytes of the datagram arrive).                                 *)

\* n as k little-endian bytes
Enc(n, k) == [b \in 1..k |-> IF b = 1 THEN n % 256 ELSE IF b = 2 THEN (n \div 256) % 256 ELSE 0]

Fill(byte, k) == [b \in 1..k |-> byte]

\* The k-th marker set: a name of k letters, NUL, the marker count k - 1, the markers.
MarkerSetName(k) == [c \in 1..k |-> 64 + c]
MarkerSetRecord(k) ==
  MarkerSetName(k) \o <<0>> \o Enc(k - 1, 4) \o Fill(1, MarkerSize * (k - 1))

RECURSIVE MarkerSetRecords(_, _)
\* The marker sets from the k-th to the n-th, one after the other.
MarkerSetRecords(k, n) ==
  IF k > n THEN <<>> ELSE MarkerSetRecord(k) \o MarkerSetRecords(k + 1, n)

\* The k-th rigid body: id k, a position, an orientation and, in the variant
\* that carries them, the mean marker error and the tracking status.
RigidBodyRecord(quality, k) ==
  Enc(k, 4) \o Fill(1, 12) \o Fill(1, 16) \o (IF quality THEN Fill(1, 4) \o Enc(1, 2) ELSE <<>>)

RECURSIVE RigidBodyRecords(_, _, _)
\* The rigid bodies from the k-th to the n-th, one after the other.
RigidBodyRecords(quality, k, n) ==
  IF k > n THEN <<>> ELSE RigidBodyRecord(quality, k) \o RigidBodyRecords(quality, k + 1, n)

\* A skeleton with no bones: its id and its rigid body count.
SkeletonRecord(k) == Enc(k, 4) \o Enc(0, 4)

RECURSIVE SkeletonRecords(_, _)
\* The skeletons from the k-th to the n-th, one after the other.
SkeletonRecords(k, n) ==
  IF k > n THEN <<>> ELSE SkeletonRecord(k) \o SkeletonRecords(k + 1, n)

FramePayload(in) ==
      Enc(1, 4)
      \o Enc(in.nMarkerSets, 4) \o MarkerSetRecords(1, in.nMarkerSets)
      \o Enc(in.nUnlabeled, 4) \o Fill(1, MarkerSize * in.nUnlabeled)
      \o Enc(in.nRigidBodies, 4) \o RigidBodyRecords(in.quality, 1, in.nRigidBodies)
      \o Enc(in.nSkeletons, 4) \o SkeletonRecords(1, in.nSkeletons)
      \o Enc(in.nLabeled, 4) \o Fill(1, LabeledMarkerSize * in.nLabeled)
      \o Enc(0, 4) \o Enc(0, 4)
      \o Fill(1, 4) \o Fill(1, 4)
      \o Fill(2, DoubleSize)
      \o Fill(2, 3 * DoubleSize)
      \o Enc(0, 2)

\* The whole datagram: message id, declared payload size, payload.
FullDatagram(in) ==
  LET payload == FramePayload(in)
  IN  Enc(in.tag, 2) \o Enc(IF in.declared THEN Len(payload) ELSE 0, 2) \o payload

\* What arrives: the first in.size bytes of it.
Datagram(in) == SubSeq(FullDatagram(in), 1, in.size)

Shape(tag, declared, ms, un, rb, quality, sk, lm, size) ==
  [tag |-> tag, declared |-> declared, nMarkerSets |-> ms, nUnlabeled |-> un,
   nRigidBodies |-> rb, quality |-> quality, nSkeletons |-> sk, nLabeled |-> lm,
   size |-> size]

FullSize(ms, un, rb, quality, sk, lm) ==
  Len(FullDatagram(Shape(NAT_FRAMEOFDATA, TRUE, ms, un, rb, quality, sk, lm, 0)))

\* Whole frames of every shape.
WholeFrames ==
  { Shape(NAT_FRAMEOFDATA, TRUE, ms, un, rb, q, sk, lm, FullSize(ms, un, rb, q, sk, lm)) :
      ms \in 0..MaxMarkerSets, un \in UnlabeledCounts, rb \in 0..MaxRigidBodies,
      q \in BOOLEAN, sk \in SkeletonCounts, lm \in LabeledCounts }

\* Frames cut short at every length (no unlabeled or labeled markers, no skeletons).
CutFrames ==
  UNION { { Shape(NAT_FRAMEOFDATA, TRUE, ms, 0, rb, q, 0, 0, size) :
              size \in 0..(FullSize(ms, 0, rb, q, 0, 0) - 1) } :
          ms \in 0..MaxMarkerSets, rb \in 0..MaxRigidBodies, q \in BOOLEAN }

\* Frames whose header declares a payload size of 0.
MisdeclaredFrames ==
  { Shape(NAT_FRAMEOFDATA, FALSE, ms, 0, rb, TRUE, 0, 0, FullSize(ms, 0, rb, TRUE, 0, 0)) :
      ms \in 0..MaxMarkerSets, rb \in 0..MaxRigidBodies }

\* Datagrams with another message id, whole and cut to the first bytes.
OtherMessages ==
  UNION { { Shape(tag, TRUE, ms, 0, rb, TRUE, 0, 0, size) :
              size \in (0..HeaderSize) \cup {FullSize(ms, 0, rb, TRUE, 0, 0)} } :
          tag \in OtherTags, ms \in 0..MaxMarkerSets, rb \in 0..MaxRigidBodies }

Inputs == WholeFrames \cup CutFrames \cup MisdeclaredFrames \cup OtherMessages

NoInput == Shape(0, TRUE, 0, 0, 0, TRUE, 0, 0, 0)

-----------------------------------------------------------------------------
(* The data thread. *)

\* data[offset:] as parseMessage hands it to unpackMotiveData
Payload == SliceFrom(data, HeaderSize)

Init ==
  /\ pc = "recv"
  /\ input = NoInput
  /\ data = <<>>
  /\ offset = 0
  /\ i = 0
  /\ count = 0
  /\ log = <<>>
  /\ reads = <<>>
  /\ outcome = "none"

\* threadFunction: data, addr = socket.recvfrom(32768); parseMessage is
\* called for a datagram that is not empty.
Recv ==
  /\ pc = "recv"
  /\ \E in \in Inputs :
       /\ input' = in
       /\ data' = Datagram(in)
  /\ pc' = IF Len(data') > 0 THEN "parseMessage" ELSE "recv"
  /\ offset' = 0
  /\ i' = 0
  /\ count' = 0
  /\ log' = <<>>
  /\ reads' = <<>>
  /\ outcome' = "none"

\* parseMessage up to the dispatch on the message id, and all of it for a
\* message that is no frame of data.
ParseMessage ==
  /\ pc = "parseMessage"
  /\ LET messageID == FromBytesLE(Slice(data, 0, 2))
         l1 == <<Entry("Begin Packet", <<>>), Entry("Message ID", <<messageID>>)>>
     IN  IF IsFrameOfData(messageID)
           THEN /\ pc' = "unpackMotiveData"
                /\ log' = l1
                /\ outcome' = outcome
           ELSE /\ pc' = "returned"
                /\ log' = l1 \o <<Entry("ERROR: Unrecognized packet type", <<>>),
                                  Entry("End Packet", <<>>)>>
                /\ outcome' = "unrecognized"
  /\ UNCHANGED <<input, data, offset, i, count, reads>>

\* unpackMotiveData: the frame number and the marker set count.
UnpackFrameNumber ==
  /\ pc = "unpackMotiveData"
  /\ LET frameNumber == FromBytesLE(Slice(Payload, 0, 4))
         markerSetCount == FromBytesLE(Slice(Payload, 4, 8))
     IN  /\ log' = Append(log, Entry("Frame", <<frameNumber>>))
         /\ reads' = <<Read("frameNumber", 0, 4), Read("markerSetCount", 4, 4)>>
         /\ count' = markerSetCount
  /\ offset' = 8
  /\ i' = 0
  /\ pc' = "markerSets"
  /\ UNCHANGED <<input, data, outcome>>

\* for i in range(markerSetCount): offset += self.unpackMarkerSet(data[offset:])
MarkerSetLoop ==
  /\ pc = "markerSets"
  /\ LoopContinues(i, count)
  /\ LET ret == unpackMarkerSet(SliceFrom(Payload, offset))
     IN  /\ offset' = offset + ret
         /\ reads' = Append(reads, Read("unpackMarkerSet", offset, ret))
  /\ i' = i + 1
  /\ UNCHANGED <<pc, input, data, count, log, outcome>>

\* After the marker sets: the unlabeled markers are skipped and the rigid
\* body count is read.
UnpackRigidBodyCount ==
  /\ pc = "markerSets"
  /\ ~LoopContinues(i, count)
  /\ LET unlabeledMarkersCount == FromBytesLE(Slice(Payload, offset, offset + 4))
         o1 == offset + 4 + MarkerSize * unlabeledMarkersCount
         rigidBodyCount == FromBytesLE(Slice(Payload, o1, o1 + 4))
     IN  /\ reads' = reads \o <<Read("unlabeledMarkersCount", offset, 4),
                                Read("rigidBodyCount", o1, 4)>>
         /\ log' = Append(log, Entry("Rigid Body Count", <<rigidBodyCount>>))
         /\ offset' = o1 + 4
         /\ count' = rigidBodyCount
  /\ i' = 0
  /\ pc' = "rigidBodies"
  /\ UNCHANGED <<input, data, outcome>>

\* for i in range(rigidBodyCount): offset += self.unpackRigidBodyData(data[offset:])
\* A struct.error raised in the sub-decoder is caught nowhere.
RigidBodyLoop ==
  /\ pc = "rigidBodies"
  /\ LoopContinues(i, count)
  /\ LET r == unpackRigidBodyData(SliceFrom(Payload, offset))
     IN  /\ log' = log \o r.log
         /\ IF r.raised
              THEN /\ reads' = Append(reads, Read("unpackRigidBodyData", offset, -1))
                   /\ outcome' = "error"
                   /\ pc' = "dead"
                   /\ UNCHANGED <<offset, i>>
              ELSE /\ reads' = Append(reads, Read("unpackRigidBodyData", offset, r.ret))
                   /\ offset' = offset + r.ret
                   /\ i' = i + 1
                   /\ UNCHANGED <<outcome, pc>>
  /\ UNCHANGED <<input, data, count>>

\* After the rigid bodies: the skeleton count is skipped unread, the labeled
\* markers, force plates, devices and timecode are skipped, the timestamp is
\* unpacked with DoubleValue, the remaining timestamps and the frame
\* parameters are skipped, and parseMessage logs the end of the packet.
UnpackTrailer ==
  /\ pc = "rigidBodies"
  /\ ~LoopContinues(i, count)
  /\ LET o1 == offset + 4
         labeledMarkerCount == FromBytesLE(Slice(Payload, o1, o1 + 4))
         o2 == o1 + 4 + LabeledMarkerSize * labeledMarkerCount
         o3 == o2 + 4 + 4 + 4 + 4
         tsBytes == Slice(Payload, o3, o3 + DoubleSize)
     IN  IF ~StructFits(tsBytes, DoubleSize)
           THEN /\ reads' = reads \o <<Read("labeledMarkerCount", o1, 4),
                                       Read("timestamp", o3, -1)>>
                /\ outcome' = "error"
                /\ pc' = "dead"
                /\ UNCHANGED <<offset, log>>
           ELSE /\ reads' = reads \o <<Read("labeledMarkerCount", o1, 4),
                                       Read("timestamp", o3, DoubleSize)>>
                /\ log' = log \o <<Entry("Timestamp", Words(tsBytes, 2)),
                                   Entry("End Packet", <<>>)>>
                /\ offset' = o3 + DoubleSize + 3 * DoubleSize + 2
                /\ outcome' = "done"
                /\ pc' = "returned"
  /\ UNCHANGED <<input, data, i, count>>

\* while True: parseMessage has returned and the loop blocks in recvfrom
\* again; what the last call computed is gone.
LoopBack ==
  /\ pc = "returned"
  /\ pc' = "recv"
  /\ input' = NoInput
  /\ data' = <<>>
  /\ offset' = 0
  /\ i' = 0
  /\ count' = 0
  /\ log' = <<>>
  /\ reads' = <<>>
  /\ outcome' = "none"

Next ==
  \/ Recv
  \/ ParseMessage
  \/ UnpackFrameNumber
  \/ MarkerSetLoop
  \/ UnpackRigidBodyCount
  \/ RigidBodyLoop
  \/ UnpackTrailer
  \/ LoopBack

Spec == Init /\ [][Next]_vars

-----------------------------------------------------------------------------
(* What the claims speak of. *)

\* The decode of the current datagram has ended, by a return or by a raise.
Finished == pc \in {"returned", "dead"}

\* The calls of one sub-decoder (or the reads of one field), in order.
Calls(what) == SelectSeq(reads, LAMBDA r : r.what = what)

\* The log entries with one message, in order.
Logged(msg) == SelectSeq(log, LAMBDA e : e.msg = msg)

\* The message id and the payload size the header of the datagram carries.
WireTag == data[1] + 256 * data[2]
WireDeclared == data[3] + 256 * data[4]

\* Where, in the payload, the k-th marker set and the first rigid body start
\* and where the rigid bodies end, on the wire.
MarkerSetWireOffset(k) == 4 + 4 + Len(MarkerSetRecords(1, k - 1))
RigidBodyWireLen(in) == Len(RigidBodyRecord(in.quality, 1))
RigidBodyWireStart(in) ==
  MarkerSetWireOffset(in.nMarkerSets + 1) + 4 + MarkerSize * in.nUnlabeled + 4
RigidBodyWireOffset(in, k) == RigidBodyWireStart(in) + (k - 1) * RigidBodyWireLen(in)
RigidBodyWireEnd(in) == RigidBodyWireOffset(in, in.nRigidBodies + 1)

\* A whole frame of data.
WholeFrame(in) ==
  /\ in.tag = NAT_FRAMEOFDATA
  /\ in.size = Len(FullDatagram(in))

\* A whole frame of data in the layout the decoder's comments describe: the
\* rigid bodies carry the mean marker error and the tracking status.
WellFormed(in) == WholeFrame(in) /\ in.quality

\* How many whole rigid-body records a frame cut short still holds.
WholeRigidBodies(in) ==
  LET avail == in.size - HeaderSize - RigidBodyWireStart(in)
  IN  IF avail <= 0 THEN 0 ELSE Min(avail \div RigidBodyWireLen(in), in.nRigidBodies)

\* A frame of data whose rigid body count arrived but not all the records.
ShortOfRigidBodies(in) ==
  /\ in.tag = NAT_FRAMEOFDATA
  /\ in.quality
  /\ in.size >= HeaderSize + RigidBodyWireStart(in)
  /\ WholeRigidBodies(in) < in.nRigidBodies

\* A frame of data that ends somewhere after its last rigid body.
EndsAfterRigidBodies(in) ==
  /\ in.tag = NAT_FRAMEOFDATA
  /\ in.quality
  /\ in.size >= HeaderSize + RigidBodyWireEnd(in)
  /\ in.size < Len(FullDatagram(in))

-----------------------------------------------------------------------------
(* The claims. *)

\* C1: after a decode failure on one datagram the receive loop is still
\* running and goes on to the next datagram.  (The code: the struct.error
\* leaves threadFunction and the thread ends.)
C1_LoopSurvivesDecodeFailure == outcome = "error" => pc # "dead"

\* C2: every buffer shorter than 4 bytes makes parseMessage fail (Truncated).
\* (The code: a short buffer with another message id returns normally.)
C2_ShortBufferFails ==
  (Finished /\ Len(data) < HeaderSize) => outcome = "error"

\* C3: a datagram whose leading 16-bit little-endian message id is not 7 is
\* a no-op: the frame decoder and its sub-decoders are never invoked, no
\* payload byte is consumed, and parseMessage returns normally.
C3_OtherMessageIsNoOp ==
  (Len(data) >= 2 /\ WireTag # 7) =>
     /\ pc \in {"parseMessage", "returned"}
     /\ reads = <<>>
     /\ offset = 0
     /\ outcome = (IF pc = "returned" THEN "unrecognized" ELSE "none")
     /\ Logged("Frame") = <<>>

C3_Witness ==
  /\ pc = "returned"
  /\ input.tag = 5
  /\ Len(data) > HeaderSize
  /\ outcome = "unrecognized"

\* C4: for a well-formed frame of data that declares N marker sets and M
\* rigid bodies the decode completes, the marker-set decoder has run exactly
\* N times and the rigid-body decoder exactly M times, in wire order, each
\* at the offset where the previous record ended on the wire.
C4_RecordCounts ==
  (Finished /\ WellFormed(input)) =>
     LET ms == Calls("unpackMarkerSet")
         rb == Calls("unpackRigidBodyData")
     IN  /\ outcome = "done"
         /\ Len(ms) = input.nMarkerSets
         /\ Len(rb) = input.nRigidBodies
         /\ \A k \in 1..Len(ms) :
              /\ ms[k].at = MarkerSetWireOffset(k)
              /\ ms[k].at + ms[k].n = MarkerSetWireOffset(k + 1)
         /\ \A k \in 1..Len(rb) :
              /\ rb[k].at = RigidBodyWireOffset(input, k)
              /\ rb[k].at + rb[k].n = RigidBodyWireOffset(input, k + 1)
         /\ Len(Logged("ID")) = input.nRigidBodies
         /\ \A k \in 1..Len(rb) : Logged("ID")[k].val = <<k>>

C4_Witness ==
  /\ pc = "returned"
  /\ WellFormed(input)
  /\ input.nMarkerSets = 2
  /\ input.nRigidBodies = 2
  /\ Len(Calls("unpackMarkerSet")) = 2
  /\ Len(Calls("unpackRigidBodyData")) = 2

\* C5: when the rigid body count declares K bodies and the buffer holds only
\* J < K whole records, the decode fails and no field of a later body is
\* reported, not even an id.  (The code: the id of body J+1 is read from
\* whatever bytes are left, none included, and logged before the raise.)
C5_NoPartialRigidBody ==
  (Finished /\ ShortOfRigidBodies(input)) =>
     /\ outcome = "error"
     /\ Len(Logged("ID")) <= WholeRigidBodies(input)

C7_ConsumedEqualsDeclared ==
  (pc = "returned" /\ outcome = "done") => offset = WireDeclared

\* C8: once the rigid bodies are consumed, running out of input is no hard
\* error: the decode completes.  (The code: the timestamp is unpacked from
\* whatever is left and raises when 8 bytes are not there.)
C8_TrailerIsOptional ==
  (Finished /\ EndsAfterRigidBodies(input)) => outcome = "done"

\* C9: the marker-set decoder reports len(name) + 1 + 4 + 12 * markerCount
\* for a name terminated within the buffer, and fails for a name with no NUL
\* before the end of the buffer.  (The code: it reports len(rest) + 1 + 4.)
C9_MarkerSetConsumed ==
  LET ms == Calls("unpackMarkerSet")
  IN  \A k \in 1..Len(ms) :
        LET d == SliceFrom(Payload, ms[k].at)
        IN  IF \E j \in 1..Len(d) : d[j] = 0
              THEN /\ ms[k].n >= Len(MarkerSetName(k)) + 1 + 4
                   /\ (Len(d) >= Len(MarkerSetRecord(k)))
                        => ms[k].n = Len(MarkerSetName(k)) + 1 + 4 + 12 * (k - 1)
              ELSE ms[k].n < 0

\* C10: when the skeleton count is not zero the decoder stops after the
\* rigid bodies and reads neither the labeled-marker count nor the
\* timestamp.  (The code: the count is skipped unread and both are read.)
C10_StopsAtSkeletons ==
  (WholeFrame(input) /\ input.nSkeletons > 0) =>
     /\ Calls("labeledMarkerCount") = <<>>
     /\ Calls("timestamp") = <<>>

=============================================================================
